---- MODULE Spec2Model ----
(***************************************************************************)
(* Element view of quill (src/element.rs): the builder value, and the      *)
(* build / rebuild / raze lifecycle driven against an ECS world.           *)
(*                                                                         *)
(* The world is a record: the live entities, the Parent and Children       *)
(* components (the scene graph), the Name component, the bundle B, and a   *)
(* component X written by effects.  `calls` is the recorded sequence of    *)
(* effect and child-view invocations, `ok` is FALSE once a call panicked.  *)
(***************************************************************************)
EXTENDS Integers, Sequences, FiniteSets, TLC

VARIABLES element, world, pc, state, inp, changed, ret, rebuilds, liveBefore,
          declared, built, before

vars == <<element, world, pc, state, inp, changed, ret, rebuilds, liveBefore,
          declared, built, before>>

(***************************************************************************)
(* Bounds.                                                                 *)
(***************************************************************************)
MaxEffects == 2
MaxRebuilds == 2

(***************************************************************************)
(* Entities.  Owner is cx.owner; Ex is a live entity a caller may hand to  *)
(* for_entity, ExParent its parent and ExChild a child it already has;     *)
(* Gone is an entity id that was despawned before the element is built.    *)
(***************************************************************************)
NoEntity == 0
Owner == 1
Ex == 2
ExParent == 3
ExChild == 4
Gone == 5

MaxEntity == Gone + 6 + MaxRebuilds
Entities == 1..MaxEntity

NoName == "<no Name>"
NoX == <<>>
DebugNames == {"panel"}
EffectKinds == {"F1"}
StyleTuples == {"S"}

(***************************************************************************)
(* ECS world primitives used by Element.                                   *)
(***************************************************************************)
Panic(w) == [w EXCEPT !.ok = FALSE]

\* the component insertions, spawns and despawns made so far: what, on which
\* entity, in which round (0 is build, k the k-th rebuild)
Written(w, what, e) == [w EXCEPT !.writes = @ \cup {<<what, e, w.round>>}]

\* world.entity_mut(e).insert(Name::new(n)); entity_mut panics on a missing entity
InsertName(w, e, n) ==
    IF ~w.ok THEN w
    ELSE IF e \notin w.live THEN Panic(w)
    ELSE Written([w EXCEPT !.name[e] = n], "insert", e)

\* world.entity_mut(e).insert((B::default(), Name::new(n)))
InsertBundle(w, e, n) ==
    IF ~w.ok THEN w
    ELSE IF e \notin w.live THEN Panic(w)
    ELSE Written([w EXCEPT !.bundle[e] = "default", !.name[e] = n], "insert", e)

\* world.spawn(bundle).id(): the new entity is w.next
Spawn(w, b, n) ==
    IF ~w.ok THEN w
    ELSE Written([w EXCEPT !.live = @ \cup {w.next},
                           !.bundle[w.next] = b,
                           !.name[w.next] = n,
                           !.next = @ + 1], "spawn", w.next)

Without(s, gone) ==
    LET keep == {i \in 1..Len(s) : s[i] \notin gone}
        F[i \in 0..Len(s)] ==
            IF i = 0 THEN <<>>
            ELSE IF i \in keep THEN Append(F[i - 1], s[i]) ELSE F[i - 1]
    IN  F[Len(s)]

\* remove_from_children: a missing parent is skipped
RemoveFromChildren(w, p, c) ==
    IF p \notin w.live THEN w
    ELSE [w EXCEPT !.children[p] = Without(@, {c})]

\* world.entity_mut(e).remove_parent()
RemoveParent(w, e) ==
    IF ~w.ok THEN w
    ELSE IF e \notin w.live THEN Panic(w)
    ELSE IF w.parent[e] = NoEntity THEN w
    ELSE RemoveFromChildren([w EXCEPT !.parent[e] = NoEntity], w.parent[e], e)

\* world.entity_mut(e).despawn(): the entity and its components go; components
\* of other entities that name it (Parent, Children) are left as they are
Despawn(w, e) ==
    IF ~w.ok THEN w
    ELSE IF e \notin w.live THEN Panic(w)
    ELSE Written([w EXCEPT !.live = @ \ {e},
                           !.parent[e] = NoEntity,
                           !.children[e] = <<>>,
                           !.name[e] = NoName,
                           !.bundle[e] = "none",
                           !.x[e] = NoX], "despawn", e)

Range(s) == {s[i] : i \in 1..Len(s)}

\* clear_children: takes Children of p and removes Parent from each former child
ClearChildren(w, p) ==
    IF ~w.ok THEN w
    ELSE IF p \notin w.live THEN Panic(w)
    ELSE IF \E c \in Range(w.children[p]) : c \notin w.live THEN Panic(w)
    ELSE [w EXCEPT !.children[p] = <<>>,
                   !.parent = [e \in Entities |->
                        IF e \in Range(w.children[p]) THEN NoEntity ELSE @[e]]]

\* push_children: each child leaves its previous parent and is appended to p
PushChildren(w, p, cs) ==
    IF ~w.ok THEN w
    ELSE IF p \notin w.live \/ p \in Range(cs) THEN Panic(w)
    ELSE IF \E c \in Range(cs) : c \notin w.live THEN Panic(w)
    ELSE [w EXCEPT !.parent = [e \in Entities |->
                        IF e \in Range(cs) THEN p ELSE @[e]],
                   !.children = [q \in Entities |->
                        IF q = p THEN Without(@[q], Range(cs)) \o cs
                        ELSE IF q \in w.live
                        THEN Without(@[q], {c \in Range(cs) : w.parent[c] = q})
                        ELSE @[q]]]

\* world.entity_mut(p).replace_children(cs)
ReplaceChildren(w, p, cs) == PushChildren(ClearChildren(w, p), p, cs)

Record(w, call) ==
    IF ~w.ok THEN w ELSE [w EXCEPT !.calls = Append(@, call)]

(***************************************************************************)
(* NodeSpan: Node(entity) | Empty | List(spans), and its flattening.       *)
(***************************************************************************)
Node(e) == [t |-> "Node", e |-> e, items |-> <<>>]
Empty == [t |-> "Empty", e |-> NoEntity, items |-> <<>>]
List(spans) == [t |-> "List", e |-> NoEntity, items |-> spans]

RECURSIVE ToVec(_)
ToVec(span) ==
    IF span.t = "Node" THEN <<span.e>>
    ELSE IF span.t = "Empty" \/ span.items = <<>> THEN <<>>
    ELSE ToVec(Head(span.items)) \o ToVec(List(Tail(span.items)))

(***************************************************************************)
(* Effects.  An effect's state counts its invocations after apply; apply   *)
(* writes component X on the target, reapply rewrites it when the          *)
(* effect's reactive input changed.                                        *)
(***************************************************************************)
ApplyStylesEffect(styles) == "ApplyStyles(" \o styles \o ")"

\* the effect that fails: its position in the tuple and its target entity
NoFail == [pos |-> 0, target |-> NoEntity]
Fails(w, pos, target) == w.fail = [pos |-> pos, target |-> target]

EffectApply(w, f, pos, target) ==
    IF ~w.ok THEN w
    ELSE IF target \notin w.live \/ Fails(w, pos, target) THEN Panic(w)
    ELSE Record([w EXCEPT !.x[target] = <<f, 0>>],
                [op |-> "apply", eff |-> f, pos |-> pos, target |-> target,
                 round |-> w.round, st |-> [eff |-> f, n |-> 0]])

EffectReapply(w, f, pos, target, st, dirty) ==
    IF ~w.ok THEN w
    ELSE IF target \notin w.live \/ Fails(w, pos, target) THEN Panic(w)
    ELSE Record(IF dirty THEN [w EXCEPT !.x[target] = <<f, st.n + 1>>] ELSE w,
                [op |-> "reapply", eff |-> f, pos |-> pos, target |-> target,
                 round |-> w.round, st |-> st])

\* EffectTuple::apply: each member's apply, in tuple order
RECURSIVE EffectTupleApplyFrom(_, _, _, _)
EffectTupleApplyFrom(w, effects, target, i) ==
    IF i > Len(effects) THEN [w |-> w, st |-> <<>>]
    ELSE LET w1 == EffectApply(w, effects[i], i, target)
             rest == EffectTupleApplyFrom(w1, effects, target, i + 1)
         IN  [w |-> rest.w, st |-> <<[eff |-> effects[i], n |-> 0]>> \o rest.st]

EffectTupleApply(w, effects, target) == EffectTupleApplyFrom(w, effects, target, 1)

\* EffectTuple::reapply: each member's reapply on its own state, in tuple order
RECURSIVE EffectTupleReapplyFrom(_, _, _, _, _, _)
EffectTupleReapplyFrom(w, effects, target, st, dirty, i) ==
    IF i > Len(effects) THEN [w |-> w, st |-> <<>>]
    ELSE LET w1 == EffectReapply(w, effects[i], i, target, st[i], dirty)
             rest == EffectTupleReapplyFrom(w1, effects, target, st, dirty, i + 1)
         IN  [w |-> rest.w, st |-> <<[st[i] EXCEPT !.n = @ + 1]>> \o rest.st]

EffectTupleReapply(w, effects, target, st, dirty) ==
    EffectTupleReapplyFrom(w, effects, target, st, dirty, 1)

\* EffectTuple append_effect
AppendEffect(effects, effect) == Append(effects, effect)

(***************************************************************************)
(* Views.  An Element value is a record; the other child views are a       *)
(* static single-entity view ("leaf"), a conditional view ("cond") whose   *)
(* span is Node(e) or Empty, and a keyed pair ("keyed") whose two entities *)
(* can change order.                                                       *)
(***************************************************************************)
Leaf == [kind |-> "leaf"]
Cond == [kind |-> "cond"]
Keyed == [kind |-> "keyed"]

ViewCall(op, v, pos, w) ==
    [op |-> op, eff |-> v.kind, pos |-> pos, target |-> NoEntity,
     round |-> w.round, st |-> [eff |-> v.kind, n |-> 0]]

RECURSIVE ElementBuild(_, _, _)
RECURSIVE ElementRebuild(_, _, _, _, _)
RECURSIVE ElementRaze(_, _, _)
RECURSIVE ElementNodes(_, _)

\* View::build of a child view
ViewBuild(w, v, owner) ==
    IF v.kind = "element" THEN ElementBuild(w, v, owner)
    ELSE IF v.kind = "keyed"
    THEN [w |-> Spawn(Spawn(w, "none", NoName), "none", NoName),
          st |-> [a |-> w.next, b |-> w.next + 1, flipped |-> FALSE]]
    ELSE [w |-> Spawn(w, "none", NoName), st |-> [e |-> w.next]]

\* View::nodes of a child view
ViewNodes(v, st) ==
    IF v.kind = "element" THEN ElementNodes(v, st)
    ELSE IF v.kind = "keyed"
    THEN IF st.flipped THEN List(<<Node(st.b), Node(st.a)>>)
         ELSE List(<<Node(st.a), Node(st.b)>>)
    ELSE IF st.e = NoEntity THEN Empty ELSE Node(st.e)

\* View::raze of a child view
ViewRaze(w, v, st) ==
    IF v.kind = "element" THEN ElementRaze(w, v, st)
    ELSE IF v.kind = "keyed"
    THEN Despawn(RemoveParent(Despawn(RemoveParent(w, st.a), st.a), st.b), st.b)
    ELSE IF st.e = NoEntity THEN w
    ELSE Despawn(RemoveParent(w, st.e), st.e)

\* View::rebuild of a child view; flip: the view's reactive input changed
ViewRebuild(w, v, st, owner, i) ==
    IF v.kind = "element" THEN ElementRebuild(w, v, st, owner, i)
    ELSE IF v.kind = "leaf" \/ ~i.flip THEN [w |-> w, st |-> st, changed |-> FALSE]
    ELSE IF v.kind = "keyed"
    THEN [w |-> w, st |-> [st EXCEPT !.flipped = ~@], changed |-> TRUE]
    ELSE IF st.e = NoEntity
    THEN [w |-> Spawn(w, "none", NoName), st |-> [e |-> w.next], changed |-> TRUE]
    ELSE [w |-> ViewRaze(w, v, st), st |-> [e |-> NoEntity], changed |-> TRUE]

\* ViewTuple::build_spans: builds every child view, in tuple order
RECURSIVE TupleBuildSpansFrom(_, _, _, _)
TupleBuildSpansFrom(w, views, owner, i) ==
    IF i > Len(views) THEN [w |-> w, st |-> <<>>]
    ELSE LET one == ViewBuild(Record(w, ViewCall("build_view", views[i], i, w)),
                              views[i], owner)
             rest == TupleBuildSpansFrom(one.w, views, owner, i + 1)
         IN  [w |-> rest.w, st |-> <<one.st>> \o rest.st]

TupleBuildSpans(w, views, owner) == TupleBuildSpansFrom(w, views, owner, 1)

\* ViewTuple::rebuild_spans: rebuilds every child; TRUE iff a child's span changed
RECURSIVE TupleRebuildSpansFrom(_, _, _, _, _, _)
TupleRebuildSpansFrom(w, views, st, owner, i, k) ==
    IF k > Len(views) THEN [w |-> w, st |-> <<>>, changed |-> FALSE]
    ELSE LET one == ViewRebuild(Record(w, ViewCall("rebuild_view", views[k], k, w)),
                                views[k], st[k], owner,
                                [i EXCEPT !.flip = k \in i.kids])
             rest == TupleRebuildSpansFrom(one.w, views, st, owner, i, k + 1)
         IN  [w |-> rest.w, st |-> <<one.st>> \o rest.st,
              changed |-> one.changed \/ rest.changed]

TupleRebuildSpans(w, views, st, owner, i) ==
    TupleRebuildSpansFrom(w, views, st, owner, i, 1)

\* ViewTuple::span_nodes: the list of the children's spans
TupleSpanNodes(views, st) ==
    List([k \in 1..Len(views) |-> ViewNodes(views[k], st[k])])

\* ViewTuple::raze_spans: razes every child, in tuple order
RECURSIVE TupleRazeSpansFrom(_, _, _, _)
TupleRazeSpansFrom(w, views, st, k) ==
    IF k > Len(views) THEN w
    ELSE TupleRazeSpansFrom(ViewRaze(w, views[k], st[k]), views, st, k + 1)

TupleRazeSpans(w, views, st) == TupleRazeSpansFrom(w, views, st, 1)

(***************************************************************************)
(* Element: the builder.                                                   *)
(***************************************************************************)
\* Element::new
New ==
    [kind |-> "element", debug_name |-> "", display |-> NoEntity,
     children |-> <<>>, effects |-> <<>>]

\* Element::for_entity
ForEntity(node) ==
    [kind |-> "element", debug_name |-> "", display |-> node,
     children |-> <<>>, effects |-> <<>>]

\* Element::named
Named(self, name) == [self EXCEPT !.debug_name = name]

\* (mutant) children starts the element over: the effects are dropped
ChildrenDropsEffects(self, children) ==
    [kind |-> "element", children |-> children, debug_name |-> self.debug_name,
     display |-> self.display, effects |-> <<>>]

\* Element::children
Children(self, children) ==
    [kind |-> "element", children |-> children, debug_name |-> self.debug_name,
     display |-> self.display, effects |-> self.effects]

\* (mutant) the new effect is put in front of the tuple
AddEffectInFront(self, effect) ==
    [self EXCEPT !.effects = <<effect>> \o @]

\* Element::add_effect
AddEffect(self, effect) ==
    [kind |-> "element", children |-> self.children, debug_name |-> self.debug_name,
     display |-> self.display, effects |-> AppendEffect(self.effects, effect)]

\* Element::style
Style(self, styles) == AddEffect(self, ApplyStylesEffect(styles))

(***************************************************************************)
(* Element: the View implementation, one operator per statement.           *)
(***************************************************************************)
\* (mutant) nodes is the span of the children
ElementNodesOfChildren(self, st) == TupleSpanNodes(self.children, st.children)

\* nodes
ElementNodes(self, st) == Node(st.display)

\* build: name the owner
BuildOwnerName(w, self, owner) ==
    IF self.debug_name = ""
    THEN InsertName(w, owner, "Element")
    ELSE InsertName(w, owner, "Element::" \o self.debug_name)

\* (mutant) a display entity that was handed in gets no bundle and no Name
BuildDisplayNoInsert(w, self) ==
    IF self.display # NoEntity
    THEN [w |-> IF self.display \in w.live THEN w ELSE Panic(w), display |-> self.display]
    ELSE [w |-> Spawn(w, "default", self.debug_name), display |-> w.next]

\* (mutant) a display entity is spawned also when one was handed in
BuildDisplayAlwaysSpawns(w, self) ==
    [w |-> Spawn(w, "default", self.debug_name), display |-> w.next]

\* (mutant) a handed-in display entity that is missing is skipped
BuildDisplaySkipsMissing(w, self) ==
    IF self.display # NoEntity
    THEN [w |-> IF self.display \in w.live
                THEN InsertBundle(w, self.display, self.debug_name) ELSE w,
          display |-> self.display]
    ELSE [w |-> Spawn(w, "default", self.debug_name), display |-> w.next]

\* build: adopt or spawn the display entity
BuildDisplay(w, self) ==
    IF self.display # NoEntity
    THEN [w |-> InsertBundle(w, self.display, self.debug_name),
          display |-> self.display]
    ELSE [w |-> Spawn(w, "default", self.debug_name), display |-> w.next]

\* (mutant) the effects run after the children were built
BuildEffectsAfterChildren(w, self, display) ==
    EffectTupleApply(TupleBuildSpans(w, self.children, Owner).w, self.effects, display)

\* build: run attached effects
BuildEffects(w, self, display) == EffectTupleApply(w, self.effects, display)

\* build: build child nodes
BuildChildren(w, self, owner) == TupleBuildSpans(w, self.children, owner)

\* (mutant) the flattened child span is added to the children already there
BuildAttachPushes(w, self, display, children) ==
    LET nodes == TupleSpanNodes(self.children, children)
    IN  PushChildren(Record(w, [ViewCall("replace_children", self, 0, w)
                                   EXCEPT !.target = display]),
                     display, ToVec(nodes))

\* build: attach the flattened child span
BuildAttach(w, self, display, children) ==
    LET nodes == TupleSpanNodes(self.children, children)
    IN  ReplaceChildren(Record(w, [ViewCall("replace_children", self, 0, w)
                                      EXCEPT !.target = display]),
                        display, ToVec(nodes))

ElementBuild(w, self, owner) ==
    LET w1 == BuildOwnerName(w, self, owner)
        d == BuildDisplay(w1, self)
        e == BuildEffects(d.w, self, d.display)
        c == BuildChildren(e.w, self, owner)
        w5 == BuildAttach(c.w, self, d.display, c.st)
    IN  [w |-> w5,
         st |-> [display |-> d.display, children |-> c.st, effects |-> e.st]]

\* (mutant) rebuild runs apply again in place of reapply
RebuildEffectsApplies(w, self, st, i) ==
    EffectTupleApply(w, self.effects, st.display)

\* (mutant) rebuild inserts the bundle and the Name again before the effects
RebuildEffectsReinserts(w, self, st, i) ==
    EffectTupleReapply(InsertBundle(w, st.display, self.debug_name),
                       self.effects, st.display, st.effects, i.eff)

\* rebuild: reapply the effects
RebuildEffects(w, self, st, i) ==
    EffectTupleReapply(w, self.effects, st.display, st.effects, i.eff)

\* (mutant) the child set is cleared before the children are rebuilt
RebuildChildrenClearsFirst(w, self, st, owner, i) ==
    TupleRebuildSpans(ClearChildren(w, st.display), self.children, st.children, owner, i)

\* rebuild: rebuild the children
RebuildChildren(w, self, st, owner, i) ==
    TupleRebuildSpans(w, self.children, st.children, owner, i)

\* (mutant) the changed span is not attached
RebuildAttachSkipped(w, self, st) == w

\* rebuild: attach the flattened child span again
RebuildAttach(w, self, st) ==
    LET nodes == TupleSpanNodes(self.children, st.children)
    IN  ReplaceChildren(Record(w, [ViewCall("replace_children", self, 0, w)
                                      EXCEPT !.target = st.display]),
                        st.display, ToVec(nodes))

\* (mutant) rebuild passes on what rebuild_spans returned
RebuildReturnsChanged(self, st, spansChanged) == spansChanged

\* rebuild: the value returned
RebuildReturn(self, st, spansChanged) == FALSE

ElementRebuild(w, self, st, owner, i) ==
    LET e == RebuildEffects(w, self, st, i)
        st1 == [st EXCEPT !.effects = e.st]
        c == RebuildChildren(e.w, self, st1, owner, i)
        st2 == [st1 EXCEPT !.children = c.st]
        w3 == IF c.changed THEN RebuildAttach(c.w, self, st2) ELSE c.w
    IN  [w |-> w3, st |-> st2, changed |-> RebuildReturn(self, st2, c.changed)]

\* (mutant) the display entity is despawned without being detached
RazeKeepParent(w, self, st) == w

\* raze: detach the display entity
RazeRemoveParent(w, self, st) == RemoveParent(w, st.display)

\* raze: despawn the display entity
RazeDespawn(w, self, st) == Despawn(w, st.display)

\* raze: raze the children
RazeChildren(w, self, st) == TupleRazeSpans(w, self.children, st.children)

ElementRaze(w, self, st) ==
    RazeChildren(RazeDespawn(RazeRemoveParent(w, self, st), self, st), self, st)

(***************************************************************************)
(* The runtime: it makes an Element value with the builder, builds it      *)
(* once with cx.owner = Owner, rebuilds it when reactive inputs change,    *)
(* and razes it.  Every call runs to completion before the next starts;    *)
(* pc is the statement the running call is at.  declared is the sequence  *)
(* of effects in the order of the add_effect / style calls, built the      *)
(* display entity of the state build returned, before the world as it was *)
(* when the latest rebuild was called.                                     *)
(***************************************************************************)
Inner == AddEffect(Children(Named(New, "inner"), <<Cond>>), "F1")

ChildTuples == {<<>>, <<Leaf>>, <<Leaf, Cond>>, <<Keyed>>, <<Inner, Leaf>>}

NoElement ==
    [kind |-> "none", debug_name |-> "", display |-> NoEntity,
     children |-> <<>>, effects |-> <<>>]

NoState == [display |-> NoEntity, children |-> <<>>, effects |-> <<>>]

NoInput == [eff |-> FALSE, kids |-> {}, flip |-> FALSE]

InitWorld ==
    [live |-> {Owner, Ex, ExParent, ExChild},
     parent |-> [e \in Entities |->
                    IF e = Ex THEN ExParent ELSE IF e = ExChild THEN Ex ELSE NoEntity],
     children |-> [e \in Entities |->
                    IF e = ExParent THEN <<Ex>> ELSE IF e = Ex THEN <<ExChild>> ELSE <<>>],
     name |-> [e \in Entities |-> NoName],
     bundle |-> [e \in Entities |-> "none"],
     x |-> [e \in Entities |-> NoX],
     next |-> Gone + 1,
     round |-> 0,
     calls |-> <<>>,
     writes |-> {},
     fail |-> NoFail,
     ok |-> TRUE]

\* what of the world an observer sees: the entities, their components and edges
Visible(w) ==
    [live |-> w.live, parent |-> w.parent, children |-> w.children,
     name |-> w.name, bundle |-> w.bundle, x |-> w.x]

Init ==
    /\ element = NoElement
    /\ world = InitWorld
    /\ pc = "new"
    /\ state = NoState
    /\ inp = NoInput
    /\ changed = FALSE
    /\ ret = "none"
    /\ rebuilds = 0
    /\ liveBefore = {}
    /\ declared = <<>>
    /\ built = NoEntity
    /\ before = Visible(InitWorld)

Goto(w, next) == IF w.ok THEN next ELSE "aborted"

NewStep ==
    /\ pc = "new"
    /\ element' = New
    /\ pc' = "builder"
    /\ UNCHANGED <<world, state, inp, changed, ret, rebuilds, liveBefore,
                   declared, built, before>>

\* (mutant) for_entity already inserts the bundle on the entity it is given
ForEntityStepInserts ==
    /\ pc = "new"
    /\ \E node \in {Ex, Gone} :
          /\ element' = ForEntity(node)
          /\ world' = IF node \in world.live THEN InsertBundle(world, node, "") ELSE world
    /\ pc' = "builder"
    /\ UNCHANGED <<state, inp, changed, ret, rebuilds, liveBefore, declared, built, before>>

ForEntityStep ==
    /\ pc = "new"
    /\ \E node \in {Ex, Gone} : element' = ForEntity(node)
    /\ pc' = "builder"
    /\ UNCHANGED <<world, state, inp, changed, ret, rebuilds, liveBefore,
                   declared, built, before>>

NamedStep ==
    /\ pc = "builder"
    /\ \E name \in DebugNames \cup {""} : element' = Named(element, name)
    /\ UNCHANGED <<world, pc, state, inp, changed, ret, rebuilds, liveBefore,
                   declared, built, before>>

ChildrenStep ==
    /\ pc = "builder"
    /\ \E c \in ChildTuples : element' = Children(element, c)
    /\ UNCHANGED <<world, pc, state, inp, changed, ret, rebuilds, liveBefore,
                   declared, built, before>>

AddEffectStep ==
    /\ pc = "builder"
    /\ Len(element.effects) < MaxEffects
    /\ \E f \in EffectKinds :
          /\ element' = AddEffect(element, f)
          /\ declared' = Append(declared, f)
    /\ UNCHANGED <<world, pc, state, inp, changed, ret, rebuilds, liveBefore,
                   built, before>>

StyleStep ==
    /\ pc = "builder"
    /\ Len(element.effects) < MaxEffects
    /\ \E s \in StyleTuples :
          /\ element' = Style(element, s)
          /\ declared' = Append(declared, ApplyStylesEffect(s))
    /\ UNCHANGED <<world, pc, state, inp, changed, ret, rebuilds, liveBefore,
                   built, before>>

BuildOwnerStep ==
    /\ pc = "builder"
    /\ world' = BuildOwnerName(world, element, Owner)
    /\ liveBefore' = world.live
    /\ pc' = Goto(world', "build_display")
    /\ UNCHANGED <<element, state, inp, changed, ret, rebuilds, declared,
                   built, before>>

BuildDisplayStep ==
    /\ pc = "build_display"
    /\ LET d == BuildDisplay(world, element)
       IN  /\ world' = d.w
           /\ state' = [state EXCEPT !.display = d.display]
    /\ pc' = Goto(world', "build_effects")
    /\ UNCHANGED <<element, inp, changed, ret, rebuilds, liveBefore, declared,
                   built, before>>

BuildEffectsStep ==
    /\ pc = "build_effects"
    /\ \E fail \in 0..Len(element.effects) :
          LET f == IF fail = 0 THEN NoFail ELSE [pos |-> fail, target |-> state.display]
              e == BuildEffects([world EXCEPT !.fail = f], element, state.display)
          IN  /\ world' = e.w
              /\ state' = [state EXCEPT !.effects = e.st]
    /\ pc' = Goto(world', "build_children")
    /\ UNCHANGED <<element, inp, changed, ret, rebuilds, liveBefore, declared,
                   built, before>>

BuildChildrenStep ==
    /\ pc = "build_children"
    /\ LET c == BuildChildren(world, element, Owner)
       IN  /\ world' = c.w
           /\ state' = [state EXCEPT !.children = c.st]
    /\ pc' = Goto(world', "build_attach")
    /\ UNCHANGED <<element, inp, changed, ret, rebuilds, liveBefore, declared,
                   built, before>>

BuildAttachStep ==
    /\ pc = "build_attach"
    /\ world' = BuildAttach(world, element, state.display, state.children)
    /\ pc' = Goto(world', "idle")
    /\ built' = state.display
    /\ UNCHANGED <<element, state, inp, changed, ret, rebuilds, liveBefore,
                   declared, before>>

\* the child views that have a reactive input: a leaf view has none
Reactive(views) == {k \in 1..Len(views) : views[k].kind # "leaf"}

RebuildEffectsStep ==
    /\ pc = "idle"
    /\ rebuilds < MaxRebuilds
    /\ \E eff \in BOOLEAN, kids \in SUBSET Reactive(element.children),
          fail \in 0..Len(element.effects) :
          LET i == [eff |-> eff, kids |-> kids, flip |-> FALSE]
              f == IF fail = 0 THEN NoFail ELSE [pos |-> fail, target |-> state.display]
              e == RebuildEffects([world EXCEPT !.round = @ + 1, !.fail = f],
                                  element, state, i)
          IN  /\ inp' = i
              /\ world' = e.w
              /\ state' = [state EXCEPT !.effects = e.st]
    /\ rebuilds' = rebuilds + 1
    /\ ret' = "none"
    /\ before' = Visible(world)
    /\ pc' = Goto(world', "rebuild_children")
    /\ UNCHANGED <<element, changed, liveBefore, declared, built>>

RebuildChildrenStep ==
    /\ pc = "rebuild_children"
    /\ LET c == RebuildChildren(world, element, state, Owner, inp)
       IN  /\ world' = c.w
           /\ state' = [state EXCEPT !.children = c.st]
           /\ changed' = c.changed
           /\ pc' = Goto(c.w, IF c.changed THEN "rebuild_attach" ELSE "rebuild_return")
    /\ UNCHANGED <<element, inp, ret, rebuilds, liveBefore, declared, built, before>>

RebuildAttachStep ==
    /\ pc = "rebuild_attach"
    /\ world' = RebuildAttach(world, element, state)
    /\ pc' = Goto(world', "rebuild_return")
    /\ UNCHANGED <<element, state, inp, changed, ret, rebuilds, liveBefore,
                   declared, built, before>>

RebuildReturnStep ==
    /\ pc = "rebuild_return"
    /\ ret' = IF RebuildReturn(element, state, changed) THEN "true" ELSE "false"
    /\ pc' = "idle"
    /\ UNCHANGED <<element, world, state, inp, changed, rebuilds, liveBefore,
                   declared, built, before>>

RazeRemoveParentStep ==
    /\ pc = "idle"
    /\ world' = RazeRemoveParent(world, element, state)
    /\ pc' = Goto(world', "raze_despawn")
    /\ UNCHANGED <<element, state, inp, changed, ret, rebuilds, liveBefore,
                   declared, built, before>>

RazeDespawnStep ==
    /\ pc = "raze_despawn"
    /\ world' = RazeDespawn(world, element, state)
    /\ pc' = Goto(world', "raze_children")
    /\ UNCHANGED <<element, state, inp, changed, ret, rebuilds, liveBefore,
                   declared, built, before>>

RazeChildrenStep ==
    /\ pc = "raze_children"
    /\ world' = RazeChildren(world, element, state)
    /\ pc' = Goto(world', "razed")
    /\ UNCHANGED <<element, state, inp, changed, ret, rebuilds, liveBefore,
                   declared, built, before>>

\* rebuild called on a state that raze was called on
LateRebuildStep ==
    /\ pc = "razed"
    /\ LET r == ElementRebuild([world EXCEPT !.round = @ + 1], element, state,
                               Owner, NoInput)
       IN  /\ world' = r.w
           /\ state' = r.st
           /\ ret' = IF ~r.w.ok THEN "none" ELSE IF r.changed THEN "true" ELSE "false"
           /\ pc' = IF r.w.ok THEN "late_rebuilt" ELSE "late_rebuild_aborted"
    /\ UNCHANGED <<element, inp, changed, rebuilds, liveBefore, declared, built, before>>

\* raze called a second time on the same state
LateRazeStep ==
    /\ pc = "razed"
    /\ world' = ElementRaze(world, element, state)
    /\ pc' = IF world'.ok THEN "late_razed" ELSE "late_raze_aborted"
    /\ UNCHANGED <<element, state, inp, changed, ret, rebuilds, liveBefore, declared,
                   built, before>>

\* build of a second element made with for_entity(e), while the state of the
\* first element made with for_entity(e) exists
SecondAdoptStep ==
    /\ pc = "idle"
    /\ element.display # NoEntity
    /\ world' = ElementBuild(world, ForEntity(element.display), Owner).w
    /\ pc' = IF world'.ok THEN "adopted_twice" ELSE "second_build_aborted"
    /\ UNCHANGED <<element, state, inp, changed, ret, rebuilds, liveBefore, declared,
                   built, before>>

Next ==
    \/ NewStep
    \/ ForEntityStep
    \/ NamedStep
    \/ ChildrenStep
    \/ AddEffectStep
    \/ StyleStep
    \/ BuildOwnerStep
    \/ BuildDisplayStep
    \/ BuildEffectsStep
    \/ BuildChildrenStep
    \/ BuildAttachStep
    \/ RebuildEffectsStep
    \/ RebuildChildrenStep
    \/ RebuildAttachStep
    \/ RebuildReturnStep
    \/ RazeRemoveParentStep
    \/ RazeDespawnStep
    \/ RazeChildrenStep
    \/ LateRebuildStep
    \/ LateRazeStep
    \/ SecondAdoptStep

Spec == Init /\ [][Next]_vars

(***************************************************************************)
(* Properties.                                                             *)
(***************************************************************************)
\* Between calls: build or a rebuild has returned and raze has not started.
Idle == pc = "idle"

\* A state exists: from the return of build until raze is called.
StateExists == pc \in {"idle", "rebuild_children", "rebuild_attach", "rebuild_return"}

NoDuplicates(s) == \A i, j \in 1..Len(s) : s[i] = s[j] => i = j

\* The direct children of the display entity of (self, st) are the flattened span.
ChildrenAreSpan(self, st) ==
    LET nodes == ToVec(TupleSpanNodes(self.children, st.children))
    IN  /\ world.children[st.display] = nodes
        /\ NoDuplicates(nodes)
        /\ \A e \in world.live : world.parent[e] = st.display <=> e \in Range(nodes)

\* The element states held in a child tuple state (nested elements).
NestedElements(self, st) ==
    {k \in 1..Len(self.children) : self.children[k].kind = "element"}

\* C1: after build and after every rebuild, the ordered direct children of the
\* display entity are exactly the depth-first flattening of
\* children.span_nodes(children_state), without duplicate or extra entity; this
\* holds for the element and for every element nested in its children.
C1_ChildrenEqualSpan ==
    Idle =>
        /\ ChildrenAreSpan(element, state)
        /\ \A k \in NestedElements(element, state) :
              ChildrenAreSpan(element.children[k], state.children[k])

\* A rebuild in which the child span only changed order has returned.
C1_Witness ==
    /\ Idle
    /\ rebuilds > 0
    /\ element.children = <<Keyed>>
    /\ state.children[1].flipped
    /\ world.children[state.display] = <<state.children[1].b, state.children[1].a>>

RECURSIVE StateEntities(_, _)
\* Every entity referenced through an element state, nested elements included.
StateEntities(self, st) ==
    {st.display} \cup UNION {
        LET v == self.children[k]
            c == st.children[k]
        IN  IF v.kind = "element" THEN StateEntities(v, c)
            ELSE IF v.kind = "keyed" THEN {c.a, c.b}
            ELSE {c.e} \ {NoEntity}
        : k \in 1..Len(self.children)}

NoDanglingEdges ==
    \A e \in world.live :
        /\ world.parent[e] # NoEntity => world.parent[e] \in world.live
        /\ Range(world.children[e]) \subseteq world.live

\* C2: after raze returns, the display entity and every entity referenced
\* through children_state are despawned, and no live entity keeps a parent or
\* child edge to a despawned entity.
C2_RazeLeavesNothing ==
    pc = "razed" =>
        /\ state.display \notin world.live
        /\ StateEntities(element, state) \cap world.live = {}
        /\ NoDanglingEdges

\* An adopted display entity with a nested element below it was razed after
\* a rebuild; its former parent no longer lists it.
C2_Witness ==
    /\ pc = "razed"
    /\ rebuilds > 0
    /\ element.display = Ex
    /\ element.children = <<Inner, Leaf>>
    /\ world.children[ExParent] = <<>>

(***************************************************************************)
(* The recorded calls.                                                     *)
(***************************************************************************)
\* The recorded calls of kind op on target in a round, in the order made.
CallsOf(op, target, round) ==
    LET c == world.calls
        F[i \in 0..Len(c)] ==
            IF i = 0 THEN <<>>
            ELSE IF c[i].op = op /\ c[i].target = target /\ c[i].round = round
                 THEN Append(F[i - 1], c[i])
                 ELSE F[i - 1]
    IN  F[Len(c)]

EffectsOf(calls) == [k \in 1..Len(calls) |-> calls[k].eff]

\* build's effect step, and every started rebuild's effect step, has run
EffectsRan ==
    pc \in {"build_children", "build_attach", "idle", "rebuild_children",
            "rebuild_attach", "rebuild_return", "raze_despawn", "raze_children",
            "razed"}

\* C3: the apply calls of build, and the reapply calls of every rebuild, are
\* made in the order of the add_effect / style builder calls, style(s)
\* standing for ApplyStylesEffect(s) at its position.
C3_EffectsInDeclarationOrder ==
    EffectsRan =>
        /\ EffectsOf(CallsOf("apply", state.display, 0)) = declared
        /\ \A r \in 1..rebuilds :
              EffectsOf(CallsOf("reapply", state.display, r)) = declared

\* style was declared before an added effect and both were applied and reapplied
C3_Witness ==
    /\ Idle
    /\ rebuilds > 0
    /\ declared = <<ApplyStylesEffect("S"), "F1">>
    /\ EffectsOf(CallsOf("reapply", state.display, rebuilds))
          = <<ApplyStylesEffect("S"), "F1">>

\* the calls made on effect position p of the display entity, in order
CallsAt(p) ==
    LET c == world.calls
        F[i \in 0..Len(c)] ==
            IF i = 0 THEN <<>>
            ELSE IF c[i].op \in {"apply", "reapply"} /\ c[i].target = state.display
                    /\ c[i].pos = p
                 THEN Append(F[i - 1], c[i])
                 ELSE F[i - 1]
    IN  F[Len(c)]

\* the effect state after a reapply that received st
Reapplied(st) == [st EXCEPT !.n = @ + 1]

\* C4: in one lifecycle every effect position gets one apply, made by build
\* before any reapply, then one reapply per rebuild; each reapply receives
\* the state apply produced as the previous reapply left it.
C4_ApplyOnceThenReapply ==
    EffectsRan =>
        \A p \in 1..Len(declared) :
            LET c == CallsAt(p)
            IN  /\ Len(c) = 1 + rebuilds
                /\ c[1].op = "apply" /\ c[1].round = 0
                /\ c[1].st.eff = declared[p]
                /\ \A k \in 2..Len(c) :
                      /\ c[k].op = "reapply"
                      /\ c[k].round = k - 1
                      /\ c[k].st = IF k = 2 THEN c[1].st ELSE Reapplied(c[k - 1].st)

\* two rebuilds of an element with two effects have returned
C4_Witness ==
    /\ Idle
    /\ rebuilds = 2
    /\ Len(declared) = 2
    /\ Len(CallsAt(2)) = 3
    /\ CallsAt(2)[3].st.n = 1

\* index sets of the recorded calls
CallIndexes(ops, target, round) ==
    {i \in 1..Len(world.calls) :
        /\ world.calls[i].op \in ops
        /\ world.calls[i].round = round
        /\ target # NoEntity => world.calls[i].target = target}

CarriesBundleAndName(e, self) ==
    /\ e \in world.live
    /\ world.bundle[e] = "default"
    /\ world.name[e] = self.debug_name

\* C5: in build every apply on the display entity is made before any child
\* view is built and before the child set is written; in each rebuild every
\* reapply is made before any child is rebuilt and before the child set is
\* rewritten; the display entity carries B::default() and its Name when the
\* first effect runs.
C5_EffectsBeforeChildren ==
    /\ pc \in {"build_effects", "idle"} => CarriesBundleAndName(state.display, element)
    /\ pc = "build_effects" =>
          /\ state.children = <<>>
          /\ CallIndexes({"build_view", "replace_children"}, NoEntity, 0) = {}
    /\ pc = "build_children" =>
          /\ Len(CallsOf("apply", state.display, 0)) = Len(element.effects)
          /\ CallIndexes({"build_view", "replace_children"}, NoEntity, 0) = {}
    /\ pc = "rebuild_children" =>
          /\ Len(CallsOf("reapply", state.display, rebuilds)) = Len(element.effects)
          /\ CallIndexes({"rebuild_view", "replace_children"}, NoEntity, rebuilds) = {}
    /\ \A r \in 0..rebuilds :
          \A i \in CallIndexes({"apply", "reapply"}, state.display, r) :
              \A j \in CallIndexes({"build_view", "rebuild_view", "replace_children"},
                                   NoEntity, r) : i < j

\* effects were reapplied and then a changed child span was attached again
C5_Witness ==
    /\ Idle
    /\ rebuilds > 0
    /\ element.effects # <<>>
    /\ element.display = Ex
    /\ CallIndexes({"replace_children"}, state.display, rebuilds) # {}
    /\ CallIndexes({"reapply"}, state.display, rebuilds) # {}

\* the Name build gives the owner entity of an element called n
OwnerNameOf(n) == IF n = "" THEN "Element" ELSE "Element::" \o n

\* C6: after build the owner entity carries Name("Element") for an empty
\* debug_name and Name("Element::" + debug_name) otherwise, and the display
\* entity carries Name(debug_name).
C6_NamesAfterBuild ==
    (Idle /\ rebuilds = 0) =>
        /\ world.name[Owner] = OwnerNameOf(element.debug_name)
        /\ world.name[state.display] = element.debug_name

\* C7 as stated: while a state exists the display entity is live, bears
\* B::default() and a Name equal to "Element" or "Element::<debug_name>".
C7_DisplayNamedLikeOwner ==
    StateExists =>
        /\ state.display \in world.live
        /\ world.bundle[state.display] = "default"
        /\ world.name[state.display] = OwnerNameOf(element.debug_name)

\* C7 (amended): while a state exists the display entity is live, bears
\* B::default() and a Name equal to the bare debug_name.
C7_DisplayCarriesBundleAndDebugName ==
    StateExists =>
        /\ state.display \in world.live
        /\ world.bundle[state.display] = "default"
        /\ world.name[state.display] = element.debug_name

\* an adopted, named display entity at the end of its second rebuild
C7_Witness ==
    /\ pc = "rebuild_return"
    /\ rebuilds = 2
    /\ element.display = Ex
    /\ element.debug_name = "panel"
    /\ world.name[Ex] = "panel"

\* C8: from build until raze, nodes(state) is Node(display_entity), that
\* entity is live, and display_entity is the entity build returned.
C8_NodesIsStableDisplay ==
    StateExists =>
        /\ ElementNodes(element, state) = Node(built)
        /\ state.display = built
        /\ built \in world.live

\* two rebuilds, one of them with a changed child span, have returned
C8_Witness ==
    /\ Idle
    /\ rebuilds = 2
    /\ element.children = <<Leaf, Cond>>
    /\ state.children[2].e = NoEntity
    /\ ElementNodes(element, state) = Node(built)

\* C9: rebuild returns false on every call, also when rebuild_spans
\* returned true.
C9_RebuildReturnsFalse ==
    (Idle /\ rebuilds > 0) => ret = "false"

\* a rebuild whose children reported a changed span has returned false
C9_Witness ==
    /\ Idle
    /\ rebuilds > 0
    /\ changed
    /\ ret = "false"

\* C10: build of for_entity(e), e live, spawns nothing for the display: it
\* returns e, e carries B::default() and Name(debug_name), the live entities
\* grow only by those of the children, and raze despawns e; build of new()
\* spawns exactly one entity, the display entity.
C10_AdoptOrSpawn ==
    /\ (pc = "build_effects" /\ element.display # NoEntity) =>
          /\ state.display = element.display
          /\ world.live = liveBefore
          /\ CarriesBundleAndName(element.display, element)
    /\ (pc = "build_effects" /\ element.display = NoEntity) =>
          /\ state.display \notin liveBefore
          /\ world.live = liveBefore \cup {state.display}
    /\ (Idle /\ rebuilds = 0) =>
          /\ element.display # NoEntity => built = element.display
          /\ world.live \ liveBefore = StateEntities(element, state) \ {element.display}
          /\ CarriesBundleAndName(built, element)
    /\ (pc = "razed" /\ element.display # NoEntity) => element.display \notin world.live

\* an adopted entity with children was built, and razed
C10_Witness ==
    /\ pc = "razed"
    /\ element.display = Ex
    /\ element.children = <<Leaf, Cond>>
    /\ Ex \in liveBefore
    /\ Ex \notin world.live

\* The latest rebuild has returned; no effect wrote and rebuild_spans returned false.
QuietRebuild == Idle /\ rebuilds > 0 /\ ~inp.eff /\ ~changed

\* the components of entity e and the parent-child edges e is part of
EntityView(v, e) ==
    [name |-> v.name[e], bundle |-> v.bundle[e], x |-> v.x[e],
     parent |-> v.parent[e], children |-> v.children[e],
     childOf |-> {c \in v.live : v.parent[c] = e},
     listedBy |-> {q \in v.live : e \in Range(v.children[q])}]

\* C11 as stated: when no effect writes and rebuild_spans returns false, a
\* rebuild leaves the whole world, every component and every parent-child
\* edge, as it was.
C11_QuietRebuildChangesNothing ==
    QuietRebuild => Visible(world) = before

\* C11 (amended): when no effect writes and rebuild_spans returns false, a
\* rebuild, however often repeated, leaves every component of the display
\* entity and every parent-child edge of the display entity as it was.
C11_QuietRebuildKeepsDisplay ==
    QuietRebuild =>
        /\ state.display \in world.live
        /\ EntityView(Visible(world), state.display) = EntityView(before, state.display)

\* a second quiet rebuild returned while the child of a nested element changed
C11_Witness ==
    /\ QuietRebuild
    /\ rebuilds = 2
    /\ element.effects # <<>>
    /\ element.children = <<Inner, Leaf>>
    /\ inp.kids = {1}
    /\ Visible(world) # before

\* C12: new, for_entity, named, children, add_effect and style leave the
\* world as it was: until build is called nothing is spawned, despawned,
\* reparented or written, whatever builder calls were made.
C12_BuilderLeavesWorld ==
    pc \in {"new", "builder"} => world = InitWorld

\* an element for an existing entity got a name, children and two effects
C12_Witness ==
    /\ pc = "builder"
    /\ element.display = Ex
    /\ element.debug_name = "panel"
    /\ element.children = <<Inner, Leaf>>
    /\ element.effects = <<"F1", ApplyStylesEffect("S")>>
    /\ world = InitWorld

\* C13: rebuild on a state that raze was called on aborts, for every
\* element: it never returns normally.
C13_RebuildAfterRazeAborts ==
    pc # "late_rebuilt"

\* C14: build of a second element made with for_entity(e), while an element
\* made with for_entity(e) is built and not razed, aborts: it never returns
\* a second state for e.
C14_SecondAdoptionAborts ==
    pc # "adopted_twice"

\* C15: a world access on a missing entity is fatal.  build of an element made
\* with for_entity(e), e not live, aborts at the insertion on e: the owner is
\* named, nothing after the insertion runs, no state is returned and e is not
\* brought back.  raze on a state whose display entity is not live (a second
\* raze) aborts: it never returns.
C15_MissingEntityIsFatal ==
    /\ element.display = Gone =>
          /\ pc \in {"builder", "build_display", "aborted"}
          /\ built = NoEntity
          /\ Gone \notin world.live
          /\ world.calls = <<>>
          /\ pc = "aborted" =>
                /\ ~world.ok
                /\ world.name[Owner] = OwnerNameOf(element.debug_name)
    /\ pc # "late_razed"
    /\ pc = "late_raze_aborted" => ~world.ok /\ state.display \notin world.live

C15_Witness ==
    /\ pc = "aborted"
    /\ element.display = Gone
    /\ element.effects # <<>>
    /\ element.children = <<Inner, Leaf>>
    /\ world.name[Owner] = "Element::panel"

\* raze has detached the display entity and not yet despawned it
RazeDetached ==
    pc = "raze_despawn" =>
        /\ state.display \in world.live
        /\ world.parent[state.display] = NoEntity
        /\ \A e \in world.live : state.display \notin Range(world.children[e])

\* raze has despawned the display entity and raze_spans has not returned
RazeDespawned ==
    pc = "raze_children" =>
        /\ state.display \notin world.live
        /\ \A k \in NestedElements(element, state) :
              state.children[k].display \in world.live

\* C16: raze detaches the display entity from its parent, then despawns it,
\* then calls children.raze_spans; and from the call of raze_spans until it
\* returns no live entity has a parent edge that refers to a despawned entity.
C16_RazeOrderKeepsParentsLive ==
    /\ RazeDetached
    /\ RazeDespawned
    /\ pc = "raze_children" =>
          \A e \in world.live :
              world.parent[e] # NoEntity => world.parent[e] \in world.live

\* C17: rebuild writes nothing on the display entity except its child set.
\* From the start of a rebuild until the next call: no rebuild has inserted a
\* component on, spawned or despawned the display entity or the owner entity;
\* the bundle and the Name of the display entity and every component of the
\* owner are as before the rebuild; the effect component X is as before
\* unless reapply wrote it; and no entity was spawned or despawned unless a
\* child view changed.
C17_RebuildWritesOnlyChildSet ==
    (StateExists /\ world.round > 0) =>
        /\ \A wr \in world.writes :
              wr[3] > 0 => wr[2] \notin {state.display, Owner}
        /\ state.display \in world.live
        /\ world.bundle[state.display] = before.bundle[state.display]
        /\ world.name[state.display] = before.name[state.display]
        /\ EntityView(Visible(world), Owner) = EntityView(before, Owner)
        /\ ~inp.eff => world.x[state.display] = before.x[state.display]
        /\ inp.kids = {} => world.live = before.live

\* The second rebuild, with no effect input changed, left alone the X that the
\* first rebuild's reapply wrote on an adopted display entity, while a child
\* view replaced its entity.
C17_Witness ==
    /\ Idle
    /\ rebuilds = 2
    /\ element.display = Ex
    /\ ~inp.eff
    /\ Len(world.x[Ex]) = 2 /\ world.x[Ex][2] = 1
    /\ world.live # before.live
    /\ \E wr \in world.writes : wr[1] = "spawn" /\ wr[3] = 2

\* an effect failed in build (round 0) or in the rebuild of the given round
EffectFailedIn(round) ==
    pc = "aborted" /\ world.fail # NoFail /\ world.round = round

\* C18: an effect failure aborts the operation at that point.  When an apply
\* failed in build: the effects before it were applied, no child view was
\* built, no child was attached to the display entity, no state was returned,
\* and the owner Name and the display entity with its bundle and Name remain.
\* When a reapply failed in a rebuild: rebuild_spans was not invoked, the
\* child set of the display entity is as before the rebuild and the rebuild
\* returned nothing.
C18_EffectFailureAborts ==
    /\ EffectFailedIn(0) =>
          /\ Len(CallsOf("apply", state.display, 0)) = world.fail.pos - 1
          /\ CallIndexes({"build_view", "replace_children"}, NoEntity, 0) = {}
          /\ state.children = <<>>
          /\ world.children[state.display] = InitWorld.children[state.display]
          /\ world.live \ {state.display} = InitWorld.live \ {state.display}
          /\ built = NoEntity
          /\ world.name[Owner] = OwnerNameOf(element.debug_name)
          /\ CarriesBundleAndName(state.display, element)
    /\ \A r \in 1..MaxRebuilds :
          EffectFailedIn(r) =>
              /\ Len(CallsOf("reapply", state.display, r)) = world.fail.pos - 1
              /\ CallIndexes({"rebuild_view", "replace_children"}, NoEntity, r) = {}
              /\ world.children[state.display] = before.children[state.display]
              /\ world.live = before.live
              /\ ret = "none"

\* The second of two effects failed in the build of an adopted display entity
\* that has children to build.
C18_Witness ==
    /\ EffectFailedIn(0)
    /\ world.fail.pos = 2
    /\ element.display = Ex
    /\ element.children = <<Inner, Leaf>>
    /\ world.x[Ex] # NoX

\* C19: build replaces the children an adopted entity had.  When build has
\* returned for an element made with for_entity(Ex), the children of Ex are
\* exactly the flattened children.span_nodes (none for an element without
\* children), and ExChild, the child Ex had before, no longer has Ex as its
\* parent, is listed by no entity and is still live.
C19_BuildReplacesPriorChildren ==
    (Idle /\ rebuilds = 0 /\ element.display = Ex) =>
        /\ world.children[Ex] = ToVec(TupleSpanNodes(element.children, state.children))
        /\ element.children = <<>> => world.children[Ex] = <<>>
        /\ ExChild \notin Range(world.children[Ex])
        /\ world.parent[ExChild] = NoEntity
        /\ ExChild \in world.live
        /\ \A e \in world.live : world.parent[e] = Ex <=> e \in Range(world.children[Ex])

C19_Witness ==
    /\ Idle
    /\ rebuilds = 0
    /\ element.display = Ex
    /\ element.children = <<Inner, Leaf>>
    /\ Len(world.children[Ex]) = 2
    /\ InitWorld.children[Ex] = <<ExChild>>
    /\ world.parent[ExChild] = NoEntity

\* The fields of e other than those named in except are the fields of d.
SameBut(d, e, except) ==
    /\ "debug_name" \notin except => d.debug_name = e.debug_name
    /\ "display" \notin except => d.display = e.display
    /\ "children" \notin except => d.children = e.children
    /\ "effects" \notin except => d.effects = e.effects

\* C20: each builder operation changes only its own field.  On every element
\* the builder has made: named sets debug_name only; children sets the child
\* tuple only; add_effect and style put one effect at the end of the effect
\* tuple and change nothing else; so the effect tuple is the effects in the
\* order of their calls, named and children commute with each other and with
\* add_effect and style, and the last named or children call wins.
C20_BuilderOpsChangeOwnField ==
    pc = "builder" =>
        /\ element.effects = declared
        /\ \A n \in DebugNames \cup {""} :
              /\ Named(element, n).debug_name = n
              /\ SameBut(Named(element, n), element, {"debug_name"})
              /\ \A m \in DebugNames \cup {""} :
                    Named(Named(element, m), n) = Named(element, n)
              /\ \A c \in ChildTuples :
                    Children(Named(element, n), c) = Named(Children(element, c), n)
              /\ \A f \in EffectKinds :
                    AddEffect(Named(element, n), f) = Named(AddEffect(element, f), n)
        /\ \A c \in ChildTuples :
              /\ Children(element, c).children = c
              /\ SameBut(Children(element, c), element, {"children"})
              /\ \A b \in ChildTuples :
                    Children(Children(element, b), c) = Children(element, c)
              /\ \A f \in EffectKinds :
                    AddEffect(Children(element, c), f) = Children(AddEffect(element, f), c)
        /\ \A f \in EffectKinds :
              /\ AddEffect(element, f).effects = Append(element.effects, f)
              /\ SameBut(AddEffect(element, f), element, {"effects"})
        /\ \A t \in StyleTuples :
              /\ Style(element, t).effects = Append(element.effects, ApplyStylesEffect(t))
              /\ SameBut(Style(element, t), element, {"effects"})

\* named and children were each called again after the effects were added,
\* on an element made with for_entity.
C20_Witness ==
    /\ pc = "builder"
    /\ element.display = Ex
    /\ element.debug_name = "panel"
    /\ element.children = <<Keyed>>
    /\ element.effects = <<ApplyStylesEffect("S"), "F1">>
    /\ declared = <<ApplyStylesEffect("S"), "F1">>

====
